---- MODULE Spec2Model ----
(***************************************************************************)
(* Tile synchronisation and edit-session core of the Seren Steps           *)
(* dashboard: the App component (src/types.ts, lines 163-491), the         *)
(* LinkManager component (src/unnamed/part_000, lines 1-381) and the       *)
(* remote tiles table and image bucket they talk to.                       *)
(*                                                                         *)
(* Conventions.  JavaScript array indices are 0-based; sequences here are  *)
(* 1-based, so the JavaScript index i is the index i+1 here and the value  *)
(* 0 stands for a null index.  The JavaScript values undefined and null    *)
(* are the strings Undefined and Null.  A missing key of a tile object     *)
(* reads as undefined and is represented as Undefined.                     *)
(***************************************************************************)
EXTENDS Integers, Sequences, FiniteSets, Bags, TLC

\* ------------------------------------------------------------------ bounds
NumDefaults == 2    \* how many of the built-in default tiles are modelled
MaxTiles == 4       \* handleAddTile is not offered beyond this many tiles
MaxFetches == 2     \* fetchTiles calls in flight at once
MaxNotifs == 1      \* change notifications waiting for delivery (more coalesce)
MaxEdits == 2       \* field updates, additions and deletions in one run
MaxDrags == 1       \* drag gestures in one run
MaxSaves == 2       \* save / reset calls in one run
MaxUploads == 2     \* files picked for upload in one run
MaxFailures == 1    \* store calls that fail in one run
MaxTicks == 1       \* clock ticks in one run

\* A run is bounded in one of these ways: what the user and the network may
\* do in it, as counts of the events named.
NoBudget ==
  [edits |-> 0, drags |-> 0, saves |-> 0, uploads |-> 0, failures |-> 0, ticks |-> 0]

Budgets ==
  { [NoBudget EXCEPT !.edits = MaxEdits, !.ticks = MaxTicks],
    [NoBudget EXCEPT !.drags = MaxDrags, !.edits = MaxEdits - 1],
    [NoBudget EXCEPT !.saves = MaxSaves],
    [NoBudget EXCEPT !.saves = MaxSaves - 1, !.edits = MaxEdits - 1, !.failures = MaxFailures],
    [NoBudget EXCEPT !.saves = MaxSaves - 1, !.edits = MaxEdits - 1, !.ticks = MaxTicks],
    [NoBudget EXCEPT !.uploads = MaxUploads, !.saves = MaxSaves - 1],
    [NoBudget EXCEPT !.uploads = MaxUploads - 1, !.edits = MaxEdits - 1, !.failures = MaxFailures],
    [NoBudget EXCEPT !.uploads = MaxUploads, !.failures = MaxFailures] }

\* The bounds of the runs that are checked for what happens eventually: those
\* that do not combine a save with uploads or with clock ticks.
FairBudgets == {b \in Budgets : b.saves = 0 \/ (b.uploads = 0 /\ b.ticks = 0)}

\* ------------------------------------------------------------ JS values
Undefined == "undefined"
Null == "null"

\* JavaScript truthiness of a string | undefined | null value.
Falsy(v) == v \in {Undefined, Null, ""}

\* `v || null` and `v || undefined`.
OrNull(v) == IF Falsy(v) THEN Null ELSE v
OrUndefined(v) == IF Falsy(v) THEN Undefined ELSE v

\* Date.prototype.toLocaleString, as the text of the clock reading.
toLocaleString(t) == ToString(t)

TileFields == {"id", "label", "url", "icon", "imageUrl", "description"}

Tile(id, label, url, icon, imageUrl, description) ==
  [id |-> id, label |-> label, url |-> url, icon |-> icon,
   imageUrl |-> imageUrl, description |-> description]

\* The built-in default set (src/constants.tsx); none has an imageUrl key.
ALL_DEFAULT_TILES ==
  << Tile("clearcare", "ClearCare", "https://example.com/clearcare",
          "HeartHandshake", Undefined, "Care management system"),
     Tile("email", "Email", "https://outlook.office.com",
          "Mail", Undefined, "Microsoft Outlook Web"),
     Tile("teams", "Teams", "https://teams.microsoft.com",
          "Users", Undefined, "Communication & Meetings"),
     Tile("sharepoint", "SharePoint", "https://example.com/sharepoint",
          "Files", Undefined, "Documents & Intranet"),
     Tile("incident", "Incident Log", "https://example.com/incidents",
          "AlertTriangle", Undefined, "Safeguarding & Reporting"),
     Tile("rota", "Staff Rota", "https://example.com/rota",
          "Calendar", Undefined, "Schedules & Shifts"),
     Tile("policies", "Policies Folder", "https://example.com/policies",
          "ShieldCheck", Undefined, "Procedures & Compliance"),
     Tile("ciw", "CIW / Regulations", "https://careinspectorate.wales",
          "BookOpen", Undefined, "Reference Area") >>

DEFAULT_TILES == SubSeq(ALL_DEFAULT_TILES, 1, NumDefaults)

\* ------------------------------------------------------- sequence helpers
Range(s) == {s[i] : i \in DOMAIN s}

Ids(ts) == [i \in DOMAIN ts |-> ts[i].id]

DistinctIds(ts) == \A i, j \in DOMAIN ts : i # j => ts[i].id # ts[j].id

\* -------------------------------------------------------- the image bucket
BucketUrl == "https://store/tile-images/"

\* `${id}-${Date.now()}.${fileExt}` (handleImageUpload)
FileName(id, t, ext) == id \o "-" \o ToString(t) \o "." \o ext

\* supabase.storage.from(IMAGES_BUCKET).getPublicUrl(fileName)
PublicUrl(fileName) == BucketUrl \o fileName

\* ------------------------------------------------------- the tiles table
\* One element of tilesToInsert (handleSave / seedDefaultTiles); updated_at
\* is the column default NOW() of the table.
ToRow(tile, index, at) ==
  [id |-> tile.id, label |-> tile.label, url |-> tile.url, icon |-> tile.icon,
   image_url |-> OrNull(tile.imageUrl),
   description |-> OrNull(tile.description),
   sort_order |-> index, updated_at |-> at]

\* Rows that all get the sort position 0.
tilesToInsertUnordered(ts, at) == [i \in DOMAIN ts |-> ToRow(ts[i], 0, at)]

tilesToInsert(ts, at) == [i \in DOMAIN ts |-> ToRow(ts[i], i - 1, at)]

\* data.map(row => ...) in fetchTiles
MapRow(row) ==
  Tile(row.id, row.label, row.url, row.icon,
       OrUndefined(row.image_url), OrUndefined(row.description))

mappedTiles(data) == [i \in DOMAIN data |-> MapRow(data[i])]

\* select('*').order('sort_order', {ascending: true}): every listing of the
\* rows in ascending sort_order; rows of equal sort_order come in any order.
RECURSIVE SelectOrdered(_)
SelectOrdered(rows) ==
  IF rows = {} THEN {<<>>}
  ELSE UNION { { <<r>> \o s : s \in SelectOrdered(rows \ {r}) } :
               r \in {x \in rows : \A y \in rows : x.sort_order <= y.sort_order} }

\* insert(rows): id is the primary key, so the statement inserts every row
\* or, on a key conflict, none.
InsertOk(rows, newRows) ==
  /\ \A i, j \in DOMAIN newRows : i # j => newRows[i].id # newRows[j].id
  /\ \A i \in DOMAIN newRows : \A r \in rows : r.id # newRows[i].id

\* The timestamp of the first row only.
firstUpdate(data) == IF data = <<>> THEN 0 ELSE Head(data).updated_at

\* data.reduce(...) in fetchTiles, starting from new Date(0).
RECURSIVE latestUpdate(_)
latestUpdate(data) ==
  IF data = <<>> THEN 0
  ELSE LET rest == latestUpdate(Tail(data)) IN
       IF Head(data).updated_at > rest THEN Head(data).updated_at ELSE rest

\* JSON.parse(JSON.stringify(initialTiles)): strings are kept, a key whose
\* value is undefined is dropped and then reads as undefined again.
JSONClone(ts) ==
  [i \in DOMAIN ts |->
     [f \in TileFields |-> IF ts[i][f] = Undefined THEN Undefined ELSE ts[i][f]]]

\* ------------------------------------------------------------------ state
VARIABLES
  \* App (src/types.ts)
  tiles,          \* the canonical list
  tilesIsDefault, \* the canonical list is the DEFAULT_TILES array object itself
  lastUpdated, isManaging, isLoading, isSaving, error,
  \* LinkManager (src/unnamed/part_000); it is mounted iff isManaging and not
  \* isLoading, and its state is lost when it is unmounted
  lmTiles,        \* the working copy (the LinkManager's own `tiles`)
  uploadingId, draggedIndex, dragOverIndex,
  \* the remote store
  remote,         \* rows of the tiles table
  bucket,         \* file names in the image bucket
  notifs,         \* change notifications not yet delivered
  \* calls in flight
  fetches,        \* bag of fetchTiles calls
  saves,          \* bag of handleSave / handleReset calls
  uploads,        \* bag of handleImageUpload calls
  removes,        \* bag of handleRemoveImage calls
  \* environment
  now,            \* the clock (Date.now(), NOW())
  budget,         \* what is left of the run's bounds
  allowance,      \* the run's bounds as they were at the start
  alerts,         \* how many alert dialogs the LinkManager has shown
  \* history
  held,           \* the working copy a change notification found edited
  settled         \* what a save or reset that succeeded left on display

appVars == <<tiles, tilesIsDefault, lastUpdated, isManaging, isLoading, isSaving, error>>
lmVars == <<lmTiles, uploadingId, draggedIndex, dragOverIndex>>
storeVars == <<remote, bucket, notifs>>
callVars == <<fetches, saves, uploads, removes>>
envVars == <<now, budget, allowance, alerts>>
vars == <<appVars, lmVars, storeVars, callVars, envVars, held, settled>>

\* App renders <LinkManager> only past the isLoading return and when isManaging.
Mounted == isManaging /\ ~isLoading

One(x) == SetToBag({x})

\* A collection that exists before the dashboard is first opened.
ExistingTiles ==
  << Tile("a", "Mail", "https://mail", "Mail", PublicUrl(FileName("a", 0, "png")), Undefined),
     Tile("b", "Teams", "https://teams", "Users", Undefined, "Chat"),
     Tile("c", "Files", "", "Files", Undefined, Undefined) >>

NotHeld == [edited |-> FALSE, tiles |-> <<>>]

NotSettled == [kind |-> "none", tiles |-> <<>>, lastUpdated |-> Null, error |-> Null]

Init ==
  /\ tiles = <<>>
  /\ tilesIsDefault = FALSE
  /\ lastUpdated = Null
  /\ isManaging = FALSE
  /\ isLoading = TRUE
  /\ isSaving = FALSE
  /\ error = Null
  /\ lmTiles = <<>>
  /\ uploadingId = Null
  /\ draggedIndex = 0
  /\ dragOverIndex = 0
  /\ \/ remote = {} /\ bucket = {}
     \/ /\ remote = Range(tilesToInsert(ExistingTiles, 1))
        /\ bucket = {FileName("a", 0, "png")}
  /\ notifs = 0
  \* useEffect(() => { fetchTiles(); }, [fetchTiles]) has run
  /\ fetches = One([pc |-> "select", data |-> <<>>, origin |-> "mount"])
  /\ saves = EmptyBag
  /\ uploads = EmptyBag
  /\ removes = EmptyBag
  /\ now = 1
  /\ budget \in Budgets
  /\ allowance = budget
  /\ alerts = 0
  /\ held = NotHeld
  /\ settled = NotSettled

\* ------------------------------------------------------------- rendering
\* A call of the LinkManager that outlives its component instance: its
\* setState calls then do nothing.
Orphan(call) == [call EXCEPT !.alive = FALSE]

\* What a render of App does to the LinkManager after App's state changed:
\* newRef says that setTiles was given another array object than the one held,
\* which is what re-runs the effect on [initialTiles].
Rerender(newRef) ==
  LET was == Mounted
      is == isManaging' /\ ~isLoading'
  IN
  /\ lmTiles' = IF ~is THEN <<>>
                ELSE IF ~was \/ newRef THEN JSONClone(tiles')
                ELSE lmTiles
  /\ uploadingId' = IF is /\ was THEN uploadingId ELSE Null
  /\ draggedIndex' = IF is /\ was THEN draggedIndex ELSE 0
  /\ dragOverIndex' = IF is /\ was THEN dragOverIndex ELSE 0
  /\ uploads' = IF was /\ ~is THEN BagOfAll(Orphan, uploads) ELSE uploads
  /\ removes' = IF was /\ ~is THEN BagOfAll(Orphan, removes) ELSE removes

\* A write to the tiles table that changed rows raises a change notification.
Notify(changed) ==
  notifs' = IF changed /\ notifs < MaxNotifs THEN notifs + 1 ELSE notifs

\* One more of what `kind` bounds happens in this run.
Spend(kind) ==
  /\ budget[kind] > 0
  /\ budget' = [budget EXCEPT ![kind] = @ - 1]

\* How many of what `kind` bounds have happened.
Spent(kind) == allowance[kind] - budget[kind]

\* A store call fails (StoreUnavailable).
Fails == Spend("failures")

\* ------------------------------------------------------------ fetchTiles
\* The call up to its first await: setIsLoading(true); setError(null).
StartFetch ==
  /\ isLoading' = TRUE
  /\ error' = Null
  /\ fetches' = fetches (+) One([pc |-> "select", data |-> <<>>, origin |-> "notification"])
  /\ UNCHANGED <<tiles, tilesIsDefault, lastUpdated, isManaging, isSaving>>
  /\ Rerender(FALSE)

\* The realtime subscription's callback: () => { fetchTiles(); }
Notification ==
  /\ notifs > 0
  /\ BagCardinality(fetches) < MaxFetches
  /\ notifs' = notifs - 1
  /\ held' = IF Mounted /\ lmTiles # JSONClone(tiles)
              THEN [edited |-> TRUE, tiles |-> lmTiles]
              ELSE held
  /\ StartFetch
  /\ UNCHANGED <<remote, bucket, saves, envVars, settled>>

\* The store answers the select.  An empty answer sends fetchTiles on into
\* seedDefaultTiles, whose insert is then in flight.
FetchSelect ==
  \E f \in BagToSet(fetches) :
    /\ f.pc = "select"
    /\ \/ \E data \in SelectOrdered(remote) :
            /\ fetches' = (fetches (-) One(f)) (+)
                 One([f EXCEPT !.pc = IF data = <<>> THEN "seedInsert" ELSE "rows",
                                !.data = data])
            /\ UNCHANGED budget
       \/ /\ Fails
          /\ fetches' = (fetches (-) One(f)) (+) One([f EXCEPT !.pc = "failed"])
    /\ UNCHANGED <<held, settled, appVars, lmVars, storeVars, saves, uploads, removes,
                   now, allowance, alerts>>

\* The store runs seedDefaultTiles' insert; seedDefaultTiles swallows its failure.
FetchSeedInsert ==
  \E f \in BagToSet(fetches) :
    /\ f.pc = "seedInsert"
    /\ LET rows == tilesToInsert(DEFAULT_TILES, now) IN
       \/ /\ InsertOk(remote, rows)
          /\ remote' = remote \cup Range(rows)
          /\ Notify(rows # <<>>)
          /\ fetches' = (fetches (-) One(f)) (+) One([f EXCEPT !.pc = "seedDone"])
          /\ UNCHANGED budget
       \/ /\ ~InsertOk(remote, rows)
          /\ fetches' = (fetches (-) One(f)) (+) One([f EXCEPT !.pc = "seedFailed"])
          /\ UNCHANGED <<remote, notifs, budget>>
       \/ /\ Fails
          /\ fetches' = (fetches (-) One(f)) (+) One([f EXCEPT !.pc = "seedFailed"])
          /\ UNCHANGED <<remote, notifs>>
    /\ UNCHANGED <<held, settled, appVars, lmVars, bucket, saves, uploads, removes,
                   now, allowance, alerts>>

\* A fetchTiles whose catch keeps the list it has and shows nothing.
FetchResolveSilent ==
  \E f \in BagToSet(fetches) :
    /\ f.pc \in {"rows", "failed", "seedDone", "seedFailed"}
    /\ fetches' = fetches (-) One(f)
    /\ IF f.pc = "rows"
       THEN /\ tiles' = mappedTiles(f.data)
            /\ tilesIsDefault' = FALSE
            /\ lastUpdated' = IF latestUpdate(f.data) > 0
                              THEN toLocaleString(latestUpdate(f.data))
                              ELSE lastUpdated
            /\ error' = error
       ELSE /\ tiles' = IF f.pc = "failed" THEN tiles ELSE DEFAULT_TILES
            /\ tilesIsDefault' = IF f.pc = "failed" THEN tilesIsDefault ELSE TRUE
            /\ lastUpdated' = lastUpdated
            /\ error' = error
    /\ isLoading' = FALSE
    /\ UNCHANGED <<isManaging, isSaving>>
    /\ Rerender(f.pc = "rows" \/ (f.pc # "failed" /\ ~tilesIsDefault))
    /\ held' = NotHeld
    /\ settled' = NotSettled
    /\ UNCHANGED <<storeVars, saves, envVars>>

\* The rest of fetchTiles once its awaits are over, in one render.
FetchResolve ==
  \E f \in BagToSet(fetches) :
    /\ f.pc \in {"rows", "failed", "seedDone", "seedFailed"}
    /\ fetches' = fetches (-) One(f)
    /\ IF f.pc = "rows"
       THEN /\ tiles' = mappedTiles(f.data)
            /\ tilesIsDefault' = FALSE
            /\ lastUpdated' = IF latestUpdate(f.data) > 0
                              THEN toLocaleString(latestUpdate(f.data))
                              ELSE lastUpdated
            /\ error' = error
       ELSE /\ tiles' = DEFAULT_TILES
            /\ tilesIsDefault' = TRUE
            /\ lastUpdated' = lastUpdated
            /\ error' = IF f.pc = "failed"
                        THEN "Failed to load links. Please refresh the page."
                        ELSE error
    /\ isLoading' = FALSE
    /\ UNCHANGED <<isManaging, isSaving>>
    /\ Rerender(f.pc = "rows" \/ ~tilesIsDefault)
    /\ held' = NotHeld
    /\ settled' = NotSettled
    /\ UNCHANGED <<storeVars, saves, envVars>>

\* ------------------------------------------------- opening and closing
\* The "Manage Links" button: onClick={() => setIsManaging(true)}
OpenManager ==
  /\ ~isLoading
  /\ ~isManaging
  /\ isManaging' = TRUE
  /\ UNCHANGED <<tiles, tilesIsDefault, lastUpdated, isLoading, isSaving, error>>
  /\ Rerender(FALSE)
  /\ UNCHANGED <<storeVars, fetches, saves, envVars, held, settled>>

\* A close button that keeps the working copy as the canonical list.
onCloseKeeping ==
  /\ Mounted
  /\ ~isSaving
  /\ isManaging' = FALSE
  /\ tiles' = lmTiles
  /\ tilesIsDefault' = FALSE
  /\ UNCHANGED <<lastUpdated, isLoading, isSaving, error>>
  /\ Rerender(TRUE)
  /\ UNCHANGED <<storeVars, fetches, saves, envVars, held, settled>>

\* The close button of the LinkManager: onClose={() => setIsManaging(false)}
onClose ==
  /\ Mounted
  /\ ~isSaving
  /\ isManaging' = FALSE
  /\ UNCHANGED <<tiles, tilesIsDefault, lastUpdated, isLoading, isSaving, error>>
  /\ Rerender(FALSE)
  /\ UNCHANGED <<storeVars, fetches, saves, envVars, held, settled>>

\* ------------------------------------------- handleSave / handleReset
\* The Save button: disabled={isSaving || uploadingId !== null}
SaveEnabled == ~isSaving /\ uploadingId = Null

\* A Reset button that is never disabled.
ResetAlwaysEnabled == TRUE

\* The Reset button: disabled={isSaving}
ResetEnabled == ~isSaving

\* What a save or reset call finds when it starts: the canonical list, 'last
\* updated' and the working copy, and whether nothing else is on its way (no
\* change notification, fetch, upload or image removal).
PreCall ==
  [tiles |-> tiles, lastUpdated |-> lastUpdated, lmTiles |-> lmTiles,
   quiet |-> /\ notifs = 0 /\ fetches = EmptyBag
             /\ uploads = EmptyBag /\ removes = EmptyBag]

\* handleSave up to its first await; LinkManager passes its working copy.
StartSave ==
  /\ Mounted
  /\ SaveEnabled
  /\ Spend("saves")
  /\ isSaving' = TRUE
  /\ error' = Null
  /\ saves' = saves (+) One([kind |-> "save", pc |-> "delete", newTiles |-> lmTiles, before |-> remote,
                         pre |-> PreCall])
  /\ UNCHANGED <<tiles, tilesIsDefault, lastUpdated, isManaging, isLoading>>
  /\ settled' = NotSettled
  /\ UNCHANGED <<held, lmVars, storeVars, fetches, uploads, removes,
                 now, allowance, alerts>>

\* handleReset up to its first await (the confirm dialog was accepted).
StartReset ==
  /\ Mounted
  /\ ResetEnabled
  /\ Spend("saves")
  /\ isSaving' = TRUE
  /\ error' = Null
  /\ saves' = saves (+) One([kind |-> "reset", pc |-> "delete", newTiles |-> <<>>, before |-> remote,
                         pre |-> PreCall])
  /\ UNCHANGED <<tiles, tilesIsDefault, lastUpdated, isManaging, isLoading>>
  /\ settled' = NotSettled
  /\ UNCHANGED <<held, lmVars, storeVars, fetches, uploads, removes,
                 now, allowance, alerts>>

\* The store runs delete().neq('id', ''); on success the caller goes on to
\* its insert, which is then in flight.
SaveDelete ==
  \E c \in BagToSet(saves) :
    /\ c.pc = "delete"
    /\ \/ /\ remote' = {}
          /\ Notify(remote # {})
          /\ saves' = (saves (-) One(c)) (+)
               One([c EXCEPT !.pc = IF c.kind = "save" THEN "insert" ELSE "seedInsert"])
          /\ UNCHANGED budget
       \/ /\ Fails
          /\ saves' = (saves (-) One(c)) (+) One([c EXCEPT !.pc = "deleteFailed"])
          /\ UNCHANGED <<remote, notifs>>
    /\ UNCHANGED <<held, settled, appVars, lmVars, bucket, fetches, uploads, removes,
                   now, allowance, alerts>>

\* The store runs the insert of handleSave (tilesToInsert) or, for a reset,
\* of seedDefaultTiles, which swallows its failure.
SaveInsert ==
  \E c \in BagToSet(saves) :
    /\ c.pc \in {"insert", "seedInsert"}
    /\ LET rows == tilesToInsert(IF c.kind = "save" THEN c.newTiles ELSE DEFAULT_TILES, now)
           ok == IF c.kind = "save" THEN "inserted" ELSE "seedDone"
           ko == IF c.kind = "save" THEN "insertFailed" ELSE "seedFailed"
       IN
       \/ /\ InsertOk(remote, rows)
          /\ remote' = remote \cup Range(rows)
          /\ Notify(rows # <<>>)
          /\ saves' = (saves (-) One(c)) (+) One([c EXCEPT !.pc = ok])
          /\ UNCHANGED budget
       \/ /\ ~InsertOk(remote, rows)
          /\ saves' = (saves (-) One(c)) (+) One([c EXCEPT !.pc = ko])
          /\ UNCHANGED <<remote, notifs, budget>>
       \/ /\ Fails
          /\ saves' = (saves (-) One(c)) (+) One([c EXCEPT !.pc = ko])
          /\ UNCHANGED <<remote, notifs>>
    /\ UNCHANGED <<held, settled, appVars, lmVars, bucket, fetches, uploads, removes,
                   now, allowance, alerts>>

\* The rows of the tiles table, their timestamps aside.
Untimed(r) == [r EXCEPT !.updated_at = 0]

\* The list a save or reset call writes.
Written(c) == IF c.kind = "save" THEN c.newTiles ELSE DEFAULT_TILES

\* What call c leaves on display when it resolves, remembered if both its store
\* calls succeeded, the table holds just what it wrote and no fetch is in
\* flight: whatever is fetched next is then fetched after the call.
Settle(c) ==
  IF /\ c.pc \in {"inserted", "seedDone"}
     /\ fetches = EmptyBag
     /\ {Untimed(r) : r \in remote} = Range(tilesToInsert(Written(c), 0))
  THEN [kind |-> c.kind, tiles |-> tiles', lastUpdated |-> lastUpdated', error |-> error']
  ELSE NotSettled

\* A handleSave that leaves adopting the saved list to the change notification.
SaveResolveLazy ==
  \E c \in BagToSet(saves) :
    /\ c.kind = "save"
    /\ c.pc \in {"inserted", "insertFailed", "deleteFailed"}
    /\ saves' = saves (-) One(c)
    /\ isManaging' = IF c.pc = "inserted" THEN FALSE ELSE isManaging
    /\ error' = IF c.pc = "inserted" THEN error
                ELSE "Failed to save changes. Please try again."
    /\ isSaving' = FALSE
    /\ UNCHANGED <<tiles, tilesIsDefault, lastUpdated, isLoading>>
    /\ Rerender(FALSE)
    /\ held' = IF isManaging' THEN held ELSE NotHeld
    /\ settled' = Settle(c)
    /\ UNCHANGED <<storeVars, fetches, envVars>>

\* A handleSave without its finally: a failed save leaves the busy flag set.
SaveResolveNoFinally ==
  \E c \in BagToSet(saves) :
    /\ c.kind = "save"
    /\ c.pc \in {"inserted", "insertFailed", "deleteFailed"}
    /\ saves' = saves (-) One(c)
    /\ IF c.pc = "inserted"
       THEN /\ tiles' = c.newTiles
            /\ tilesIsDefault' = FALSE
            /\ lastUpdated' = toLocaleString(now)
            /\ isManaging' = FALSE
            /\ error' = error
       ELSE /\ error' = "Failed to save changes. Please try again."
            /\ UNCHANGED <<tiles, tilesIsDefault, lastUpdated, isManaging>>
    /\ isSaving' = (c.pc # "inserted")
    /\ UNCHANGED isLoading
    /\ Rerender(c.pc = "inserted")
    /\ held' = IF isManaging' THEN held ELSE NotHeld
    /\ settled' = Settle(c)
    /\ UNCHANGED <<storeVars, fetches, envVars>>

\* The rest of handleSave: the success path, or catch, then finally.
SaveResolve ==
  \E c \in BagToSet(saves) :
    /\ c.kind = "save"
    /\ c.pc \in {"inserted", "insertFailed", "deleteFailed"}
    /\ saves' = saves (-) One(c)
    /\ IF c.pc = "inserted"
       THEN /\ tiles' = c.newTiles
            /\ tilesIsDefault' = FALSE
            /\ lastUpdated' = toLocaleString(now)
            /\ isManaging' = FALSE
            /\ error' = error
       ELSE /\ error' = "Failed to save changes. Please try again."
            /\ UNCHANGED <<tiles, tilesIsDefault, lastUpdated, isManaging>>
    /\ isSaving' = FALSE
    /\ UNCHANGED isLoading
    /\ Rerender(c.pc = "inserted")
    /\ held' = IF isManaging' THEN held ELSE NotHeld
    /\ settled' = Settle(c)
    /\ UNCHANGED <<storeVars, fetches, envVars>>

\* A handleReset that stamps 'last updated' as handleSave does.
ResetResolveStamping ==
  \E c \in BagToSet(saves) :
    /\ c.kind = "reset"
    /\ c.pc \in {"seedDone", "seedFailed", "deleteFailed"}
    /\ saves' = saves (-) One(c)
    /\ IF c.pc \in {"seedDone", "seedFailed"}
       THEN /\ tiles' = DEFAULT_TILES
            /\ tilesIsDefault' = TRUE
            /\ lastUpdated' = toLocaleString(now)
            /\ isManaging' = FALSE
            /\ error' = error
       ELSE /\ error' = "Failed to reset. Please try again."
            /\ UNCHANGED <<tiles, tilesIsDefault, lastUpdated, isManaging>>
    /\ isSaving' = FALSE
    /\ UNCHANGED isLoading
    /\ Rerender(c.pc \in {"seedDone", "seedFailed"} /\ ~tilesIsDefault)
    /\ held' = IF isManaging' THEN held ELSE NotHeld
    /\ settled' = Settle(c)
    /\ UNCHANGED <<storeVars, fetches, envVars>>

\* The rest of handleReset.
ResetResolve ==
  \E c \in BagToSet(saves) :
    /\ c.kind = "reset"
    /\ c.pc \in {"seedDone", "seedFailed", "deleteFailed"}
    /\ saves' = saves (-) One(c)
    /\ IF c.pc \in {"seedDone", "seedFailed"}
       THEN /\ tiles' = DEFAULT_TILES
            /\ tilesIsDefault' = TRUE
            /\ lastUpdated' = Null
            /\ isManaging' = FALSE
            /\ error' = error
       ELSE /\ error' = "Failed to reset. Please try again."
            /\ UNCHANGED <<tiles, tilesIsDefault, lastUpdated, isManaging>>
    /\ isSaving' = FALSE
    /\ UNCHANGED isLoading
    /\ Rerender(c.pc \in {"seedDone", "seedFailed"} /\ ~tilesIsDefault)
    /\ held' = IF isManaging' THEN held ELSE NotHeld
    /\ settled' = Settle(c)
    /\ UNCHANGED <<storeVars, fetches, envVars>>

\* ------------------------------------------------- LinkManager: edits
\* An update that sets the field on every tile.
handleUpdateTileAll(ts, id, field, value) ==
  [i \in DOMAIN ts |-> [ts[i] EXCEPT ![field] = value]]

\* prev.map(t => t.id === id ? { ...t, [field]: value } : t)
handleUpdateTile(ts, id, field, value) ==
  [i \in DOMAIN ts |-> IF ts[i].id = id THEN [ts[i] EXCEPT ![field] = value] ELSE ts[i]]

\* A delete that does not wait for the confirmation.
handleDeleteTileUnasked(ts, id, confirmed) == SelectSeq(ts, LAMBDA t : t.id # id)

\* prev.filter(t => t.id !== id), once window.confirm returned true
handleDeleteTile(ts, id, confirmed) ==
  IF confirmed THEN SelectSeq(ts, LAMBDA t : t.id # id) ELSE ts

\* `custom-${Date.now()}`
NewId(t) == "custom-" \o ToString(t)

\* An addition that puts the new tile first.
handleAddTileFirst(ts, t) ==
  <<Tile(NewId(t), "New App", "", "Globe", Undefined, "Description here")>> \o ts

\* [...prev, newTile]; newTile has no imageUrl key
handleAddTile(ts, t) ==
  Append(ts, Tile(NewId(t), "New App", "", "Globe", Undefined, "Description here"))

\* What reading a tile yields where the array holds undefined.
UndefinedTile == [f \in TileFields |-> Undefined]

\* const [draggedTile] = newTiles.splice(draggedIndex, 1): a start past the
\* end removes nothing and draggedTile is undefined.
SpliceOut(ts, from) ==
  IF from \in DOMAIN ts
  THEN [removed |-> ts[from],
        rest |-> SubSeq(ts, 1, from - 1) \o SubSeq(ts, from + 1, Len(ts))]
  ELSE [removed |-> UndefinedTile, rest |-> ts]

\* newTiles.splice(dropIndex, 0, draggedTile): a start past the end appends.
SpliceIn(ts, to, t) ==
  LET at == IF to > Len(ts) + 1 THEN Len(ts) + 1 ELSE to IN
  SubSeq(ts, 1, at - 1) \o <<t>> \o SubSeq(ts, at, Len(ts))

\* A drop that exchanges the two tiles instead of moving one.
reorderSwap(ts, from, to) ==
  IF from \notin DOMAIN ts \/ to \notin DOMAIN ts THEN ts
  ELSE [ts EXCEPT ![from] = ts[to], ![to] = ts[from]]

\* A drop that puts the dragged tile behind the card it is dropped on, also
\* when that card is its own.
reorderShifted(ts, from, to) ==
  IF from = 0 THEN ts
  ELSE LET cut == SpliceOut(ts, from) IN SpliceIn(cut.rest, to + 1, cut.removed)

\* The new working copy of handleDrop (lines 75-84).
reorder(ts, from, to) ==
  IF from = 0 \/ from = to THEN ts
  ELSE LET cut == SpliceOut(ts, from) IN SpliceIn(cut.rest, to, cut.removed)

\* What the inputs of a tile card can be set to in this model.
UserInputs ==
  [label |-> {"Inbox"}, url |-> {""}, icon |-> {"Star"}, description |-> {""}]

LMUnchanged == UNCHANGED <<appVars, storeVars, fetches, saves, held, settled>>

\* An input's onChange: handleUpdateTile(tile.id, field, e.target.value)
UpdateTile ==
  /\ Mounted /\ ~isSaving
  /\ Spend("edits")
  /\ \E i \in DOMAIN lmTiles : \E field \in DOMAIN UserInputs : \E value \in UserInputs[field] :
       /\ lmTiles[i][field] # value
       /\ lmTiles' = handleUpdateTile(lmTiles, lmTiles[i].id, field, value)
  /\ UNCHANGED <<uploadingId, draggedIndex, dragOverIndex, uploads, removes,
                 now, allowance, alerts>>
  /\ LMUnchanged

\* The delete button of the card of the tile at index i, the confirm dialog
\* answered with `confirmed`.
DeleteTileAt(i, confirmed) ==
  /\ Mounted /\ ~isSaving
  /\ Spend("edits")
  /\ i \in DOMAIN lmTiles
  /\ lmTiles' = handleDeleteTile(lmTiles, lmTiles[i].id, confirmed)
  /\ UNCHANGED <<uploadingId, draggedIndex, dragOverIndex, uploads, removes,
                 now, allowance, alerts>>
  /\ LMUnchanged

\* The delete button of a tile card.
DeleteTile ==
  \E i \in DOMAIN lmTiles : \E confirmed \in BOOLEAN : DeleteTileAt(i, confirmed)

\* The "Add New App" button.
AddTile ==
  /\ Mounted /\ ~isSaving
  /\ Spend("edits")
  /\ Len(lmTiles) < MaxTiles
  /\ lmTiles' = handleAddTile(lmTiles, now)
  /\ UNCHANGED <<uploadingId, draggedIndex, dragOverIndex, uploads, removes,
                 now, allowance, alerts>>
  /\ LMUnchanged

\* ------------------------------------------------ LinkManager: dragging
\* onDragStart of a tile card (draggable={!isSaving}); one gesture at a time.
handleDragStart ==
  /\ Mounted /\ ~isSaving
  /\ draggedIndex = 0
  /\ Spend("drags")
  /\ \E index \in DOMAIN lmTiles : draggedIndex' = index
  /\ UNCHANGED <<lmTiles, uploadingId, dragOverIndex, uploads, removes, now, allowance, alerts>>
  /\ LMUnchanged

\* A drag-over that also records the card being dragged as hovered.
handleDragOverAny ==
  /\ Mounted
  /\ \E index \in DOMAIN lmTiles :
       /\ draggedIndex # 0
       /\ dragOverIndex' = index
  /\ UNCHANGED <<lmTiles, uploadingId, draggedIndex, uploads, removes, envVars>>
  /\ LMUnchanged

handleDragOver ==
  /\ Mounted
  /\ \E index \in DOMAIN lmTiles :
       /\ draggedIndex # 0 /\ draggedIndex # index
       /\ dragOverIndex' = index
  /\ UNCHANGED <<lmTiles, uploadingId, draggedIndex, uploads, removes, envVars>>
  /\ LMUnchanged

handleDragLeave ==
  /\ Mounted
  /\ dragOverIndex # 0
  /\ dragOverIndex' = 0
  /\ UNCHANGED <<lmTiles, uploadingId, draggedIndex, uploads, removes, envVars>>
  /\ LMUnchanged

handleDropAt(dropIndex) ==
  /\ Mounted
  /\ lmTiles' = reorder(lmTiles, draggedIndex, dropIndex)
  /\ draggedIndex' = 0
  /\ dragOverIndex' = 0
  /\ UNCHANGED <<uploadingId, uploads, removes, envVars>>
  /\ LMUnchanged

\* onDrop of a tile card.
handleDrop == \E dropIndex \in DOMAIN lmTiles : handleDropAt(dropIndex)

handleDragEnd ==
  /\ Mounted
  /\ draggedIndex # 0
  /\ draggedIndex' = 0
  /\ dragOverIndex' = 0
  /\ UNCHANGED <<lmTiles, uploadingId, uploads, removes, envVars>>
  /\ LMUnchanged

\* ------------------------------------------------ LinkManager: images
\* 2 * 1024 * 1024, the limit of handleImageUpload
MaxUploadBytes == 2 * 1024 * 1024

\* The sizes of the files the user picks: just under, at and just over the limit.
FileSizes == {MaxUploadBytes - 1, MaxUploadBytes, MaxUploadBytes + 1}

\* A size check that also turns away a file of exactly the limit.
TooLargeInclusive(size) == size >= MaxUploadBytes

\* if (file.size > 2 * 1024 * 1024) { alert(...); return; }
TooLarge(size) == size > MaxUploadBytes

\* The ids a tile can have in this model, and the file names made from them.
TileIds ==
  Range(Ids(DEFAULT_TILES)) \cup Range(Ids(ExistingTiles))
    \cup {NewId(t) : t \in 1..(1 + MaxTicks)}

FileNames == {FileName(id, t, "png") : id \in TileIds, t \in 0..(1 + MaxTicks)}

\* imageUrl.split('/') and its last part; file names hold no '/'.
FileNameOf(url) == CHOOSE f \in FileNames : PublicUrl(f) = url

\* handleImageUpload up to its first await, for a file of `size` bytes picked
\* on the card of the tile at index i.  The file input is shown when that
\* tile is not uploading and has no image.  A file that is too large is
\* turned away with an alert and nothing else happens.
handleImageUpload(i, size) ==
  /\ Mounted /\ ~isSaving
  /\ i \in DOMAIN lmTiles
  /\ uploadingId # lmTiles[i].id
  /\ Falsy(lmTiles[i].imageUrl)
  /\ Spend("uploads")
  /\ IF TooLarge(size)
     THEN /\ alerts' = alerts + 1
          /\ UNCHANGED <<uploadingId, uploads>>
     ELSE /\ uploadingId' = lmTiles[i].id
          /\ uploads' = uploads (+)
               One([id |-> lmTiles[i].id, fileName |-> FileName(lmTiles[i].id, now, "png"),
                    pc |-> "upload", alive |-> TRUE])
          /\ UNCHANGED alerts
  /\ UNCHANGED <<lmTiles, draggedIndex, dragOverIndex, removes, now, allowance>>
  /\ LMUnchanged

\* The file input of a tile card.
StartUpload ==
  \E i \in DOMAIN lmTiles : \E size \in FileSizes : handleImageUpload(i, size)

\* The bucket runs upload(fileName, file, {upsert: true}).
UploadExec ==
  \E u \in BagToSet(uploads) :
    /\ u.pc = "upload"
    /\ \/ /\ bucket' = bucket \cup {u.fileName}
          /\ uploads' = (uploads (-) One(u)) (+) One([u EXCEPT !.pc = "uploaded"])
          /\ UNCHANGED budget
       \/ /\ Fails
          /\ uploads' = (uploads (-) One(u)) (+) One([u EXCEPT !.pc = "uploadFailed"])
          /\ UNCHANGED bucket
    /\ UNCHANGED <<held, settled, appVars, lmVars, remote, notifs, fetches, saves, removes, now, allowance, alerts>>

\* A handleImageUpload without its finally: a failed upload leaves the mark; a component that was unmounted meanwhile
\* ignores the setState calls.
UploadResolveNoFinally ==
  \E u \in BagToSet(uploads) :
    /\ u.pc \in {"uploaded", "uploadFailed"}
    /\ uploads' = uploads (-) One(u)
    /\ IF u.alive
       THEN /\ lmTiles' = IF u.pc = "uploaded"
                          THEN handleUpdateTile(lmTiles, u.id, "imageUrl", PublicUrl(u.fileName))
                          ELSE lmTiles
            /\ uploadingId' = IF u.pc = "uploaded" THEN Null ELSE uploadingId
       ELSE UNCHANGED <<lmTiles, uploadingId>>
    \* catch: alert('Failed to upload image. Please try again.')
    /\ alerts' = IF u.pc = "uploadFailed" THEN alerts + 1 ELSE alerts
    /\ UNCHANGED <<draggedIndex, dragOverIndex, removes, now, budget, allowance>>
    /\ LMUnchanged

\* The rest of handleImageUpload; a component that was unmounted meanwhile
\* ignores the setState calls.
UploadResolve ==
  \E u \in BagToSet(uploads) :
    /\ u.pc \in {"uploaded", "uploadFailed"}
    /\ uploads' = uploads (-) One(u)
    /\ IF u.alive
       THEN /\ lmTiles' = IF u.pc = "uploaded"
                          THEN handleUpdateTile(lmTiles, u.id, "imageUrl", PublicUrl(u.fileName))
                          ELSE lmTiles
            /\ uploadingId' = Null
       ELSE UNCHANGED <<lmTiles, uploadingId>>
    \* catch: alert('Failed to upload image. Please try again.')
    /\ alerts' = IF u.pc = "uploadFailed" THEN alerts + 1 ELSE alerts
    /\ UNCHANGED <<draggedIndex, dragOverIndex, removes, now, budget, allowance>>
    /\ LMUnchanged

\* The Remove button of a tile card, shown when the tile is not uploading
\* and has an image: handleRemoveImage up to its await.
StartRemove ==
  /\ Mounted /\ ~isSaving
  /\ Spend("edits")
  /\ \E i \in DOMAIN lmTiles :
       /\ uploadingId # lmTiles[i].id
       /\ ~Falsy(lmTiles[i].imageUrl)
       /\ removes' = removes (+)
            One([id |-> lmTiles[i].id, fileName |-> FileNameOf(lmTiles[i].imageUrl),
                 pc |-> "remove", alive |-> TRUE])
  /\ UNCHANGED <<lmVars, uploads, now, allowance, alerts>>
  /\ LMUnchanged

\* A removal that stops when the bucket's delete fails.
RemoveExecBlocking ==
  \E r \in BagToSet(removes) :
    /\ r.pc = "remove"
    /\ \/ /\ bucket' = bucket \ {r.fileName}
          /\ removes' = (removes (-) One(r)) (+) One([r EXCEPT !.pc = "removed"])
          /\ UNCHANGED budget
       \/ /\ Fails
          /\ removes' = (removes (-) One(r)) (+) One([r EXCEPT !.pc = "removeFailed"])
          /\ UNCHANGED bucket
    /\ UNCHANGED <<held, settled, appVars, lmVars, remote, notifs, fetches, saves, uploads, now, allowance, alerts>>

\* The bucket runs remove([fileName]); its failure is not looked at.
RemoveExec ==
  \E r \in BagToSet(removes) :
    /\ r.pc = "remove"
    /\ removes' = (removes (-) One(r)) (+) One([r EXCEPT !.pc = "removed"])
    /\ \/ bucket' = bucket \ {r.fileName} /\ UNCHANGED budget
       \/ Fails /\ UNCHANGED bucket
    /\ UNCHANGED <<held, settled, appVars, lmVars, remote, notifs, fetches, saves, uploads, now, allowance, alerts>>

\* The rest of handleRemoveImage: handleUpdateTile(id, 'imageUrl', '').
RemoveResolve ==
  \E r \in BagToSet(removes) :
    /\ r.pc = "removed"
    /\ removes' = removes (-) One(r)
    /\ lmTiles' = IF r.alive THEN handleUpdateTile(lmTiles, r.id, "imageUrl", "") ELSE lmTiles
    /\ UNCHANGED <<uploadingId, draggedIndex, dragOverIndex, uploads, envVars>>
    /\ LMUnchanged

\* The clock advances.
Tick ==
  /\ Spend("ticks")
  /\ now' = now + 1
  /\ UNCHANGED <<held, settled, appVars, lmVars, storeVars, callVars, allowance, alerts>>

Next ==
  \/ Notification
  \/ FetchSelect
  \/ FetchSeedInsert
  \/ FetchResolve
  \/ OpenManager
  \/ onClose
  \/ StartSave
  \/ StartReset
  \/ SaveDelete
  \/ SaveInsert
  \/ SaveResolve
  \/ ResetResolve
  \/ UpdateTile
  \/ DeleteTile
  \/ AddTile
  \/ handleDragStart
  \/ handleDragOver
  \/ handleDragLeave
  \/ handleDrop
  \/ handleDragEnd
  \/ StartUpload
  \/ UploadExec
  \/ UploadResolve
  \/ StartRemove
  \/ RemoveExec
  \/ RemoveResolve
  \/ Tick

Spec == Init /\ [][Next]_vars

\* The store answers every request sent to it, and the event loop runs the
\* continuation of every await whose answer has arrived.
Fairness ==
  /\ WF_vars(FetchSelect) /\ WF_vars(FetchSeedInsert) /\ WF_vars(FetchResolve)
  /\ WF_vars(SaveDelete) /\ WF_vars(SaveInsert)
  /\ WF_vars(SaveResolve) /\ WF_vars(ResetResolve)
  /\ WF_vars(UploadExec) /\ WF_vars(UploadResolve)
  /\ WF_vars(RemoveExec) /\ WF_vars(RemoveResolve)

FairInit == Init /\ budget \in FairBudgets

FairSpec == FairInit /\ [][Next]_vars /\ Fairness

\* ================================================================ claims
\* s without its k-th element.
Without(s, k) == [n \in 1..(Len(s) - 1) |-> IF n < k THEN s[n] ELSE s[n + 1]]

\* R is S with the element at i moved to position j and nothing else changed.
IsMove(S, i, j, R) ==
  /\ Len(R) = Len(S)
  /\ R[j] = S[i]
  /\ Without(R, j) = Without(S, i)

\* C1: a drag started at a valid index i and dropped at a valid index j # i
\* leaves a working sequence with the same elements, the element that was at
\* i now at j, and all the others in their former relative order.
C1_ReorderIsMove ==
  [][\A j \in DOMAIN lmTiles :
       (draggedIndex \in DOMAIN lmTiles /\ draggedIndex # j /\ handleDropAt(j))
         => IsMove(lmTiles, draggedIndex, j, lmTiles')]_vars

\* A drop has moved the first of three tiles to the end, past the other two.
C1_Witness ==
  /\ Mounted
  /\ Spent("drags") > 0
  /\ draggedIndex = 0
  /\ Len(tiles) = 3
  /\ lmTiles = <<tiles[2], tiles[3], tiles[1]>>


\* C2: a change notification that arrives while the edit session is open and
\* the working copy holds uncommitted edits does not change the working
\* copy: once the re-fetch it triggered resolves, the session still open, the
\* working copy is what it was when the notification arrived.
C2_WorkingCopySurvivesRefetch ==
  [][(held.edited /\ FetchResolve /\ isManaging' /\ ~isLoading')
       => lmTiles' = held.tiles]_vars

\* C3: updateField, deleteTile, addTile and reorder on the working copy, and
\* closing the session without saving, each leave the canonical list (and its
\* 'last updated') as it was and write nothing to the remote store; so the
\* canonical list after a discarded session is the one the session opened on.
C3_DiscardIsolation ==
  [][(UpdateTile \/ DeleteTile \/ AddTile \/ handleDrop \/ onClose)
       => /\ tiles' = tiles
          /\ lastUpdated' = lastUpdated
          /\ remote' = remote
          /\ bucket' = bucket
          /\ notifs' = notifs]_vars

\* A session in which the working copy was edited has been closed, and
\* nothing was ever saved or reset.
C3_Witness ==
  /\ ~isManaging /\ ~isLoading
  /\ Spent("edits") > 0
  /\ Spent("saves") = 0
  /\ tiles # <<>>

\* C4: when a commit has succeeded and the table holds just what it wrote, a
\* fresh fetch yields the committed working copy: same ids, same value of
\* every field (empty strings included), same order.
C4_RoundTrip ==
  \A c \in BagToSet(saves) :
    ( /\ c.kind = "save" /\ c.pc = "inserted"
      /\ \E t \in 1..(1 + MaxTicks) : remote = Range(tilesToInsert(c.newTiles, t)) )
    => \A data \in SelectOrdered(remote) : mappedTiles(data) = c.newTiles

\* C5: when a save is about to report success, the table holds exactly the
\* given tiles, each at the sort position of its index, and nothing else.
C5_SaveLeavesExactlyGiven ==
  \A c \in BagToSet(saves) :
    (c.kind = "save" /\ c.pc = "inserted")
    => {Untimed(r) : r \in remote} = Range(tilesToInsert(c.newTiles, 0))

\* C6: a select that the store answers while a save or reset is in flight
\* returns the whole collection as it was before that call, or the whole new
\* collection.
C6_ReplaceAllAtomic ==
  [][\A c \in BagToSet(saves) : \A g \in BagToSet(fetches') :
       ( /\ FetchSelect
         /\ g.pc \in {"rows", "seedInsert"}
         /\ CopiesIn(g, fetches') > CopiesIn(g, fetches) )
       => \/ g.data \in SelectOrdered(c.before)
          \/ [i \in DOMAIN g.data |-> Untimed(g.data[i])] = tilesToInsert(Written(c), 0)]_vars

\* C7: the ids of the working copy are distinct.
C7_UniqueIds == Mounted => DistinctIds(lmTiles)

\* C8: while an upload has started and not resolved, Save is disabled.
C8_NoCommitWhileUploading ==
  uploads # EmptyBag => ~(Mounted /\ SaveEnabled)

\* C9: at most one save or reset is in flight, and while the busy flag is set
\* neither a save nor a reset can start.
C9_SaveResetExclusive ==
  /\ BagCardinality(saves) <= 1
  /\ isSaving => ~ENABLED StartSave /\ ~ENABLED StartReset

\* A save or reset is in flight with the editor on screen, and the run's
\* bound would allow another call.
C9_Witness ==
  /\ isSaving /\ Mounted
  /\ BagCardinality(saves) = 1
  /\ budget.saves > 0

\* C10: the step in which a successful save completes makes the given list
\* the canonical list, sets 'last updated' to the time of that step and
\* closes the edit session.
C10_SaveAdoptsImmediately ==
  [][\A c \in BagToSet(saves) :
       (c.kind = "save" /\ c.pc = "inserted" /\ SaveResolve /\ saves' = saves (-) One(c))
       => /\ tiles' = c.newTiles
          /\ lastUpdated' = toLocaleString(now)
          /\ ~isManaging']_vars

\* A save has completed: the canonical list holds an emptied description,
\* which only the adoption of a saved working copy puts there.
C10_Witness ==
  /\ ~isManaging /\ ~isSaving
  /\ saves = EmptyBag
  /\ Spent("saves") > 0
  /\ lastUpdated = toLocaleString(now)
  /\ \E i \in DOMAIN tiles : tiles[i].description = ""

\* C11: once a save or reset has succeeded with the table holding just what
\* it wrote, the re-fetch that its change notification triggers leaves the
\* canonical list, 'last updated' and the error what they were right after
\* the save or reset completed, with the dashboard ready again.
C11_RefetchIdempotent ==
  [][(settled.kind # "none" /\ FetchResolve)
       => /\ tiles' = settled.tiles
          /\ lastUpdated' = settled.lastUpdated
          /\ error' = settled.error
          /\ ~isLoading']_vars

\* C12: the step in which a save that failed (at its delete or at its insert)
\* reports the failure sets the error and finds the canonical list and the
\* open working copy as they were when save was called, whatever change
\* notifications the failed save has caused by then; nothing else was on its
\* way when save was called.
C12_SaveFailureKeepsState ==
  [][\A c \in BagToSet(saves) :
       ( /\ c.kind = "save" /\ c.pc \in {"deleteFailed", "insertFailed"}
         /\ c.pre.quiet
         /\ SaveResolve /\ saves' = saves (-) One(c) )
       => /\ error' # Null
          /\ tiles' = c.pre.tiles
          /\ isManaging' /\ ~isLoading'
          /\ lmTiles' = c.pre.lmTiles]_vars

\* C13: the step in which a reset that failed (at its delete or at the insert
\* of the defaults) resolves sets the error and finds the canonical list and
\* 'last updated' as they were when reset was called, with the edit session
\* still open; nothing else was on its way when reset was called.
C13_ResetFailureKeepsState ==
  [][\A c \in BagToSet(saves) :
       ( /\ c.kind = "reset" /\ c.pc \in {"deleteFailed", "seedFailed"}
         /\ c.pre.quiet
         /\ ResetResolve /\ saves' = saves (-) One(c) )
       => /\ error' # Null
          /\ tiles' = c.pre.tiles
          /\ lastUpdated' = c.pre.lastUpdated
          /\ isManaging']_vars

\* C14: the step in which a reset whose delete and insert both succeeded
\* resolves finds in the table one row for each default tile and no other,
\* the row of the i-th default tile at sort position i (counted from 0), and
\* makes the default set the canonical list and 'last updated' null.
C14_ResetLeavesDefaults ==
  [][\A c \in BagToSet(saves) :
       ( /\ c.kind = "reset" /\ c.pc = "seedDone"
         /\ ResetResolve /\ saves' = saves (-) One(c) )
       => /\ Cardinality(remote') = Len(DEFAULT_TILES)
          /\ \A i \in DOMAIN DEFAULT_TILES :
               \E r \in remote' : r.sort_order = i - 1 /\ MapRow(r) = DEFAULT_TILES[i]
          /\ tiles' = DEFAULT_TILES
          /\ lastUpdated' = Null]_vars

\* A reset of a collection that was not the default set has succeeded: the
\* table and the canonical list hold the defaults and 'last updated', which
\* was set, is null.
C14_Witness ==
  /\ settled.kind = "reset"
  /\ bucket # {}
  /\ saves = EmptyBag /\ ~isSaving /\ ~isManaging
  /\ tiles = DEFAULT_TILES
  /\ lastUpdated = Null
  /\ {MapRow(r) : r \in remote} = Range(DEFAULT_TILES)

\* Nothing has been saved or reset and the table holds no row that was there
\* before the dashboard was opened: the table was empty at startup.
StartedEmpty ==
  /\ Spent("saves") = 0
  /\ remote \cap Range(tilesToInsert(ExistingTiles, 1)) = {}

\* C15: when the table was empty at startup and the store takes the seed,
\* the seeding step of the initial fetch leaves in the table the default set,
\* which every select then lists in its defined order; the fetch adopts the
\* default set as the canonical list when it resolves; and every later
\* select returns, and every later fetch adopts, exactly the default set in
\* its defined order.
C15_StartupSeeding ==
  [][StartedEmpty =>
       /\ (FetchSeedInsert /\ remote' # remote)
            => /\ remote = {}
               /\ Cardinality(remote') = Len(DEFAULT_TILES)
               /\ \A data \in SelectOrdered(remote') : mappedTiles(data) = DEFAULT_TILES
       /\ \A g \in BagToSet(fetches') :
            (FetchSelect /\ g.pc = "rows" /\ CopiesIn(g, fetches') > CopiesIn(g, fetches))
            => mappedTiles(g.data) = DEFAULT_TILES
       /\ \A f \in BagToSet(fetches) :
            (FetchResolve /\ f.pc \in {"seedDone", "rows"} /\ fetches' = fetches (-) One(f))
            => tiles' = DEFAULT_TILES /\ ~isLoading']_vars

\* The table was empty at startup, the initial fetch has seeded it, and the
\* fetch after that one has resolved (it is what sets 'last updated').
C15_Witness ==
  /\ StartedEmpty
  /\ remote # {}
  /\ fetches = EmptyBag /\ notifs = 0 /\ ~isLoading
  /\ lastUpdated # Null
  /\ tiles = DEFAULT_TILES

\* C16: a select that fails writes nothing to the store, and the step in
\* which the failed fetch resolves makes the built-in defaults the canonical
\* list, sets the error, ends loading and writes nothing to the store either.
C16_FetchFailureFallsBack ==
  [][/\ (FetchSelect /\ budget' # budget)
          => remote' = remote /\ bucket' = bucket /\ notifs' = notifs
     /\ \A f \in BagToSet(fetches) :
          (FetchResolve /\ f.pc = "failed" /\ fetches' = fetches (-) One(f))
          => /\ tiles' = DEFAULT_TILES
             /\ error' # Null
             /\ ~isLoading'
             /\ remote' = remote /\ bucket' = bucket /\ notifs' = notifs]_vars

\* The fetch of a collection that is not the default set has failed: the
\* error is shown, the canonical list is the default set, and the table is
\* what it was.
C16_Witness ==
  /\ error = "Failed to load links. Please refresh the page."
  /\ ~isLoading /\ fetches = EmptyBag
  /\ tiles = DEFAULT_TILES
  /\ remote = Range(tilesToInsert(ExistingTiles, 1))

\* No fetch, save or reset is in flight and no change notification is waiting:
\* unless the user writes again, the canonical list stays what it is.
Quiescent == fetches = EmptyBag /\ saves = EmptyBag /\ notifs = 0

\* The list as it reads once written to the table and fetched again: an empty
\* imageUrl or description reads as undefined.
Refetched(ts) == mappedTiles(tilesToInsert(ts, 0))

\* C17: when no store call has failed and everything has resolved, the
\* canonical list is the table's collection in sort-position order (an empty
\* and an absent imageUrl or description taken as the same), whatever the
\* order in which the calls resolved.
C17_Converged ==
  (Quiescent /\ Spent("failures") = 0)
    => \E data \in SelectOrdered(remote) : Refetched(tiles) = mappedTiles(data)

\* C18: once the dashboard has left Loading it never shows it again, so an
\* edit session that is on screen stays on screen until it is closed.
C18_NeverBackToLoading ==
  [][~isLoading => ~isLoading']_vars

\* C19: picking a file of more than 2 * 1024 * 1024 bytes starts no upload
\* and leaves the working copy, the uploading mark and the bucket as they
\* were; picking one of that size or less marks the tile as uploading and
\* starts the upload; and when an upload that succeeded resolves in the
\* session that started it, the tile's imageUrl is the public URL of the
\* uploaded file.
C19_UploadSizeGuard ==
  [][/\ \A i \in DOMAIN lmTiles : \A size \in FileSizes :
          handleImageUpload(i, size)
          => IF size > 2 * 1024 * 1024
             THEN UNCHANGED <<lmTiles, uploadingId, uploads, bucket>>
             ELSE /\ lmTiles' = lmTiles
                  /\ uploadingId' = lmTiles[i].id
                  /\ \E u \in BagToSet(uploads') :
                       /\ u.id = lmTiles[i].id /\ u.pc = "upload"
                       /\ uploads' = uploads (+) One(u)
     /\ \A u \in BagToSet(uploads) :
          (UploadResolve /\ u.pc = "uploaded" /\ u.alive /\ uploads' = uploads (-) One(u))
          => \A i \in DOMAIN lmTiles' :
               lmTiles'[i].id = u.id => lmTiles'[i].imageUrl = PublicUrl(u.fileName)]_vars

\* Two files were picked and nothing failed; one upload took place, it has
\* resolved, and a tile of the working copy shows the uploaded file.
C19_Witness ==
  /\ Mounted
  /\ Spent("uploads") = 2 /\ Spent("failures") = 0
  /\ uploads = EmptyBag /\ uploadingId = Null
  /\ Cardinality(bucket \ {FileName("a", 0, "png")}) = 1
  /\ \E i \in DOMAIN lmTiles : \E f \in bucket \ {FileName("a", 0, "png")} :
       lmTiles[i].imageUrl = PublicUrl(f)

\* C20: a drop on a tile card, processed when the recorded source index is
\* not an index of the working sequence (none is recorded, or the sequence
\* has become shorter since the drag started), leaves the working sequence as
\* it was.  (A drop lands on a card that is on screen, so the drop index is
\* always an index of the working sequence.)
C20_OutOfBoundsDropIsNoOp ==
  [][\A j \in DOMAIN lmTiles :
       (handleDropAt(j) /\ draggedIndex \notin DOMAIN lmTiles)
       => lmTiles' = lmTiles]_vars

\* C21: a drop of the dragged tile on its own card leaves the working
\* sequence as it was and sets both drag indices to none.
C21_DropOnSelfIsIdentity ==
  [][\A j \in DOMAIN lmTiles :
       (handleDropAt(j) /\ draggedIndex = j)
       => /\ lmTiles' = lmTiles
          /\ draggedIndex' = 0
          /\ dragOverIndex' = 0]_vars

\* A drag gesture on three tiles is over, no index is recorded, and the
\* working sequence is the one the gesture started on.
C21_Witness ==
  /\ Mounted
  /\ Spent("drags") > 0 /\ Spent("edits") = 0
  /\ draggedIndex = 0 /\ dragOverIndex = 0
  /\ Len(lmTiles) = 3
  /\ lmTiles = JSONClone(tiles)

\* s without the elements whose id is `id`, the others in their order.
RECURSIVE Removing(_, _)
Removing(s, id) ==
  IF s = <<>> THEN <<>>
  ELSE IF Head(s).id = id THEN Removing(Tail(s), id)
       ELSE <<Head(s)>> \o Removing(Tail(s), id)

\* C22: a confirmed delete on the card of tile i leaves the working sequence
\* without the tiles of that id (without just that tile, the ids being
\* distinct) and with all others in their order; a declined one leaves it
\* as it was; and deleting an id that no tile has would leave it as it was.
C22_DeleteRemovesExactlyOne ==
  [][/\ \A i \in DOMAIN lmTiles :
          /\ DeleteTileAt(i, TRUE)
               => /\ lmTiles' = Removing(lmTiles, lmTiles[i].id)
                  /\ DistinctIds(lmTiles) => lmTiles' = Without(lmTiles, i)
          /\ handleDeleteTile(lmTiles, lmTiles[i].id, FALSE) = lmTiles
     /\ handleDeleteTile(lmTiles, "z", TRUE) = lmTiles]_vars

\* A tile of a working copy of three has been deleted: the working copy is
\* the canonical list without one of its tiles.
C22_Witness ==
  /\ Mounted
  /\ Spent("edits") > 0
  /\ Len(tiles) = 3
  /\ \E k \in DOMAIN tiles : lmTiles = Without(JSONClone(tiles), k)

\* C23: the seeding step of a fetch that a change notification started
\* writes nothing to the table and raises no notification.
C23_NotificationNeverWrites ==
  [][\A f \in BagToSet(fetches) :
       ( /\ f.origin = "notification" /\ f.pc = "seedInsert"
         /\ FetchSeedInsert
         /\ CopiesIn(f, fetches') < CopiesIn(f, fetches) )
       => remote' = remote /\ notifs' = notifs]_vars

\* C24: after every step, if dragOverIndex is set then draggedIndex is set
\* and differs from it; and after a drop (whether or not it moves a tile)
\* and after the end of a drag, draggedIndex and dragOverIndex are both none.
C24_DragProtocol ==
  [][/\ dragOverIndex' # 0 => (draggedIndex' # 0 /\ draggedIndex' # dragOverIndex')
     /\ (handleDrop \/ handleDragEnd) => (draggedIndex' = 0 /\ dragOverIndex' = 0)]_vars

\* A tile is being dragged over the card of another tile.
C24_Witness ==
  /\ Mounted
  /\ draggedIndex # 0
  /\ dragOverIndex # 0

\* C30: the busy flag is set exactly while a save or reset call is in
\* flight, and whenever it is set it is cleared again later, whichever way
\* the call ends.
C30_BusyFlagReturns ==
  /\ [](isSaving <=> saves # EmptyBag)
  /\ isSaving ~> ~isSaving

\* A save that failed has resolved: its error is shown, the flag is clear and
\* the editor is still on screen.
C30_Witness ==
  /\ error = "Failed to save changes. Please try again."
  /\ ~isSaving /\ saves = EmptyBag
  /\ Mounted

\* The tiles ts with field set to value on every tile whose id is id.
WithField(ts, id, field, value) ==
  [i \in DOMAIN ts |->
     [g \in DOMAIN ts[i] |-> IF ts[i].id = id /\ g = field THEN value ELSE ts[i][g]]]

\* C25: when a live editor's upload call ends, the uploading mark is cleared;
\* if the upload failed an alert is raised and the working copy is unchanged;
\* if it succeeded the working copy changes only in the imageUrl of the tile
\* with the call's id; and whenever the uploading mark is set it is cleared
\* again later.
C25_UploadFailureClearsMark ==
  /\ [][\A u \in BagToSet(uploads) :
          (UploadResolve /\ u.alive /\ uploads' = uploads (-) One(u))
          => /\ uploadingId' = Null
             /\ u.pc = "uploadFailed" => (lmTiles' = lmTiles /\ alerts' = alerts + 1)
             /\ u.pc = "uploaded"
                  => /\ lmTiles' = WithField(lmTiles, u.id, "imageUrl", PublicUrl(u.fileName))
                     /\ alerts' = alerts]_vars
  /\ (uploadingId # Null) ~> (uploadingId = Null)

\* The only upload of the run failed in the bucket and has resolved: one
\* alert, no mark, no call in flight, nothing stored.
C25_Witness ==
  /\ Mounted
  /\ allowance.uploads = 1 /\ Spent("uploads") = 1
  /\ Spent("failures") = 1 /\ Spent("edits") = 0
  /\ error = Null /\ remote # {}
  /\ alerts = 1
  /\ uploads = EmptyBag /\ uploadingId = Null
  /\ lmTiles = JSONClone(tiles)

\* C26: the bucket's delete always hands the removal on to its last step,
\* raising no alert and no error, whether or not the file was deleted; and
\* that last step, in a live editor, sets imageUrl to '' on the tile with
\* the call's id and changes nothing else, again with no alert and no error.
C26_DetachAlwaysClears ==
  [][/\ RemoveExec
          => /\ \E r \in BagToSet(removes) :
                  /\ r.pc = "remove"
                  /\ removes' = (removes (-) One(r)) (+) One([r EXCEPT !.pc = "removed"])
             /\ alerts' = alerts /\ error' = error /\ lmTiles' = lmTiles
     /\ \A r \in BagToSet(removes) :
          (RemoveResolve /\ r.alive /\ removes' = removes (-) One(r))
          => /\ lmTiles' = WithField(lmTiles, r.id, "imageUrl", "")
             /\ \A i \in DOMAIN lmTiles : lmTiles[i].id = r.id => lmTiles'[i].imageUrl = ""
             /\ alerts' = alerts /\ error' = error]_vars

\* A removal whose delete failed has resolved: the file is still in the
\* bucket and the tile's imageUrl is ''.
C26_Witness ==
  /\ Mounted
  /\ Spent("failures") = 1
  /\ removes = EmptyBag
  /\ alerts = 0 /\ error = Null
  /\ \E i \in DOMAIN lmTiles :
       /\ lmTiles[i].imageUrl = ""
       /\ ~Falsy(tiles[i].imageUrl)
       /\ FileNameOf(tiles[i].imageUrl) \in bucket
       /\ lmTiles = [JSONClone(tiles) EXCEPT ![i].imageUrl = ""]

\* The values an update is tried with.
C27_Values == {"Inbox", ""}

\* C27: an update step of the editor sets the named field on the tiles whose
\* id is the given one and changes nothing else; and on the working copy it
\* starts from, handleUpdateTile with any id, field and value keeps the
\* length, the order, every id and every field other than the named one of
\* the tiles with that id, and returns the working copy unchanged when no
\* tile has the id.
C27_UpdateFieldFrame ==
  [][UpdateTile
       => /\ \E i \in DOMAIN lmTiles : \E field \in DOMAIN UserInputs :
               \E value \in UserInputs[field] :
                 lmTiles' = WithField(lmTiles, lmTiles[i].id, field, value)
          /\ \A id \in Range(Ids(lmTiles)) \cup {"z"} :
               \A field \in TileFields \ {"id"} : \A value \in C27_Values :
                 /\ handleUpdateTile(lmTiles, id, field, value)
                      = WithField(lmTiles, id, field, value)
                 /\ Ids(handleUpdateTile(lmTiles, id, field, value)) = Ids(lmTiles)
                 /\ (id \notin Range(Ids(lmTiles)))
                      => handleUpdateTile(lmTiles, id, field, value) = lmTiles]_vars

\* One label was edited in a working copy of several tiles; the rest of the
\* working copy is as it was cloned.
C27_Witness ==
  /\ Mounted
  /\ Spent("edits") = 1
  /\ Len(lmTiles) >= 2
  /\ \E i \in DOMAIN lmTiles :
       /\ tiles[i].label # "Inbox"
       /\ lmTiles = [JSONClone(tiles) EXCEPT ![i].label = "Inbox"]

\* C28: an addition makes the working copy one tile longer, keeps the tiles
\* it had in their places, ends it with a tile labelled 'New App' with url
\* '', icon 'Globe' and description 'Description here', and changes neither
\* the tiles of the application nor the table.
C28_AddTileAppends ==
  [][AddTile
       => /\ Len(lmTiles') = Len(lmTiles) + 1
          /\ SubSeq(lmTiles', 1, Len(lmTiles)) = lmTiles
          /\ lmTiles'[Len(lmTiles')].label = "New App"
          /\ lmTiles'[Len(lmTiles')].url = ""
          /\ lmTiles'[Len(lmTiles')].icon = "Globe"
          /\ lmTiles'[Len(lmTiles')].description = "Description here"
          /\ tiles' = tiles
          /\ remote' = remote /\ bucket' = bucket /\ notifs' = notifs
          /\ saves' = saves /\ fetches' = fetches]_vars

\* A tile was added to a working copy of several tiles.
C28_Witness ==
  /\ Mounted
  /\ Spent("edits") = 1
  /\ Len(tiles) >= 2
  /\ Len(lmTiles) = Len(tiles) + 1
  /\ SubSeq(lmTiles, 1, Len(tiles)) = JSONClone(tiles)
  /\ lmTiles[Len(lmTiles)].label = "New App"

\* The largest updated_at of the rows data.
MaxStamp(data) ==
  CHOOSE m \in {data[i].updated_at : i \in DOMAIN data} :
    \A i \in DOMAIN data : data[i].updated_at <= m

\* C29: when a fetch that was answered with rows resolves, 'last updated'
\* is the local form of the largest updated_at among those rows.
C29_LastUpdatedIsMax ==
  [][\A f \in BagToSet(fetches) :
       (FetchResolve /\ f.pc = "rows" /\ fetches' = fetches (-) One(f))
       => lastUpdated' = toLocaleString(MaxStamp(f.data))]_vars

\* A fetch was answered with rows of different timestamps, the first of them
\* not the latest, and 'last updated' shows the latest.
C29_Witness ==
  /\ ~isLoading /\ ~isSaving
  /\ fetches = EmptyBag /\ notifs = 0
  /\ settled = NotSettled
  /\ \E r1, r2 \in remote :
       /\ r1.updated_at < r2.updated_at
       /\ r1.sort_order < r2.sort_order
       /\ \A r \in remote : r.updated_at <= r2.updated_at
       /\ lastUpdated = toLocaleString(r2.updated_at)
  /\ Len(tiles) = Cardinality(remote)

\* The files of the bucket that the tiles ts refer to.
Referenced(ts) ==
  {FileNameOf(ts[i].imageUrl) : i \in {j \in DOMAIN ts : ~Falsy(ts[j].imageUrl)}}

\* C31: when the editor is closed in a run in which nothing was ever saved
\* or reset, every imageUrl of the tiles of the application refers to a file
\* that is in the bucket.
C31_DiscardKeepsAssets ==
  [][(onClose /\ Spent("saves") = 0) => Referenced(tiles') \subseteq bucket']_vars

====
